---------------------------- MODULE Spec2Model ----------------------------
(***************************************************************************)
(* Model of the App component of vnMedicalPaper (src/App.tsx): the five    *)
(* useState cells, the load effect, the page-reset effect, the memoised    *)
(* filter and pagination, and the conditional rendering.                   *)
(*                                                                         *)
(* Strings are sequences of one-character strings, so that toLowerCase,    *)
(* trim and includes are computed, not assumed.                            *)
(***************************************************************************)
EXTENDS Integers, Sequences, FiniteSets, TLC

(* ------------------------------ bounds -------------------------------- *)

\* longest query the user types
MaxQueryLen == 3
\* largest number of rows the sheet delivers
MaxPapers == 45
\* longest exhaustively enumerated sheet (every sequence over the pool)
MaxSmallSheet == 2
\* largest page number asked of the slice computation
MaxPageReq == 4

(* ------------------------- program constants -------------------------- *)

ITEMS_PER_PAGE == 20

GOOGLE_SHEET_CSV_URL == "https://docs.google.com/spreadsheets/d/e/2PACX/pub?output=csv"

\* the value of `error` before and after setError(null)
NULL == "null"

UNKNOWN_ERROR == "An unknown error occurred."

PLACEHOLDER_ERROR == "Please replace the placeholder Google Sheet URL in App.tsx."

(* ------------------------------ strings ------------------------------- *)

\* characters the search box receives
QueryChars == {"a", "B", " "}

Queries == UNION {[1..n -> QueryChars] : n \in 0..MaxQueryLen}

\* String.prototype.toLowerCase, one character
LowerChar(c) == CASE c = "A" -> "a" [] c = "B" -> "b" [] OTHER -> c

toLowerCase(s) == [i \in 1..Len(s) |-> LowerChar(s[i])]

IsWhiteSpace(c) == c = " "

RECURSIVE trimStart(_)
trimStart(s) ==
    IF s = <<>> THEN s
    ELSE IF IsWhiteSpace(Head(s)) THEN trimStart(Tail(s)) ELSE s

RECURSIVE trimEnd(_)
trimEnd(s) ==
    IF s = <<>> THEN s
    ELSE IF IsWhiteSpace(s[Len(s)]) THEN trimEnd(SubSeq(s, 1, Len(s) - 1)) ELSE s

\* String.prototype.trim
trim(s) == trimEnd(trimStart(s))

startsWith(s, q) == Len(q) <= Len(s) /\ SubSeq(s, 1, Len(q)) = q

\* String.prototype.includes: scan the start positions left to right
RECURSIVE includes(_, _)
includes(s, q) ==
    \/ startsWith(s, q)
    \/ s # <<>> /\ includes(Tail(s), q)

(* ------------------------------ records ------------------------------- *)

Paper(j, o, a, t, v) ==
    [Journal |-> j, Organization |-> o, PublishedDate |-> <<>>, Authors |-> a,
     Title |-> t, TitleURL |-> <<>>, PdfURL |-> <<>>, VolURL |-> <<>>,
     VolTitle |-> v]

\* rows the sheet is made of: matches through Title, Authors, Journal, with
\* capitals and blanks, and one row that matches only outside the three
\* searched fields
Pool ==
    << Paper(<<"a">>, <<"b">>, <<"a">>, <<"a">>, <<"B">>),
       Paper(<<"a">>, <<"a">>, <<"a">>, <<"A", "B">>, <<"a">>),
       Paper(<<"a">>, <<"a">>, <<"B", " ", "a">>, <<"a">>, <<"a">>),
       Paper(<<"b", "B">>, <<"a">>, <<"A">>, <<"A">>, <<"a">>),
       Paper(<<"A">>, <<" ">>, <<"a", "A">>, <<"a", " ", "b">>, <<"b">>) >>

PoolSet == {Pool[i] : i \in 1..Len(Pool)}

\* what fetchAndParseSheetData resolves to: every short sheet over the pool,
\* and the sheets of every length that repeat the pool in order
Datasets ==
    UNION {[1..n -> PoolSet] : n \in 0..MaxSmallSheet}
    \cup {[i \in 1..n |-> Pool[((i - 1) % Len(Pool)) + 1]] : n \in 0..MaxPapers}

\* what fetchAndParseSheetData rejects with, or throws
Thrown ==
    {[isError |-> TRUE, message |-> m] : m \in {"HTTP error", "parse error", ""}}
    \cup {[isError |-> FALSE, message |-> "rejected"]}

\* the configured URL of a deployment: the published one, the template's
\* placeholder, or none
Urls == {GOOGLE_SHEET_CSV_URL, "YOUR_URL_HERE", ""}

(* ------------------------------- state -------------------------------- *)

VARIABLES url, papers, searchQuery, isLoading, error, currentPage,
          loadPc, resetPending, lastStep

vars == <<url, papers, searchQuery, isLoading, error, currentPage,
          loadPc, resetPending, lastStep>>

(* ------------------------- derived render values ---------------------- *)

NormalizedQuery(sq) == trim(toLowerCase(sq))

MatchesAnyField(paper, query) ==
    \/ includes(toLowerCase(paper.Title), query)
    \/ includes(toLowerCase(paper.Authors), query)
    \/ includes(toLowerCase(paper.Journal), query)
    \/ includes(toLowerCase(paper.Organization), query)
    \/ includes(toLowerCase(paper.VolTitle), query)

MatchesCaseSensitive(paper, query) ==
    \/ includes(paper.Title, query)
    \/ includes(paper.Authors, query)
    \/ includes(paper.Journal, query)

Matches(paper, query) ==
    \/ includes(toLowerCase(paper.Title), query)
    \/ includes(toLowerCase(paper.Authors), query)
    \/ includes(toLowerCase(paper.Journal), query)

FilterPapersNoTrim(ps, sq) ==
    LET query == toLowerCase(sq)
    IN  IF query = <<>> THEN ps
        ELSE SelectSeq(ps, LAMBDA paper : Matches(paper, query))

FilterPapers(ps, sq) ==
    LET query == NormalizedQuery(sq)
    IN  IF query = <<>> THEN ps
        ELSE SelectSeq(ps, LAMBDA paper : Matches(paper, query))

filteredPapers == FilterPapers(papers, searchQuery)

MathFloorDiv(n, d) == n \div d

\* Math.ceil(n / d) for n >= 0, d > 0
MathCeilDiv(n, d) == IF n % d = 0 THEN n \div d ELSE (n \div d) + 1

TotalPagesOf(list) == MathCeilDiv(Len(list), ITEMS_PER_PAGE)

totalPages == TotalPagesOf(filteredPapers)

\* Array.prototype.slice(start, end), indices from 0, end exclusive
slice(s, start, end) ==
    LET len == Len(s)
        k == IF start < 0 THEN (IF len + start < 0 THEN 0 ELSE len + start)
             ELSE (IF start > len THEN len ELSE start)
        fin == IF end < 0 THEN (IF len + end < 0 THEN 0 ELSE len + end)
               ELSE (IF end > len THEN len ELSE end)
    IN  IF fin > k THEN SubSeq(s, k + 1, fin) ELSE <<>>

PageSliceOffByOne(list, page) ==
    LET startIndex == page * ITEMS_PER_PAGE
        endIndex == startIndex + ITEMS_PER_PAGE
    IN  slice(list, startIndex, endIndex)

PageSlice(list, page) ==
    LET startIndex == (page - 1) * ITEMS_PER_PAGE
        endIndex == startIndex + ITEMS_PER_PAGE
    IN  slice(list, startIndex, endIndex)

paginatedPapers == PageSlice(filteredPapers, currentPage)

\* JavaScript truthiness of `error` (null and "" are falsy)
ErrorShown == error # NULL /\ error # ""

SpinnerShown == isLoading

\* the search box is rendered outside every conditional
SearchInputShown == TRUE

PaginationShownIgnoringLength == ~isLoading /\ ~ErrorShown

\* PaperTable and Pagination are rendered together
PaginationShown == ~isLoading /\ ~ErrorShown /\ Len(filteredPapers) > 0

NoResultsShown == ~isLoading /\ ~ErrorShown /\ Len(filteredPapers) = 0

\* pages the page controls ask for
PageRequests == 1..totalPages

(* ------------------------------ actions ------------------------------- *)

\* the callback that ran last, and the page it started from
Step(name) == [name |-> name, page |-> currentPage]

Init ==
    /\ url \in Urls
    /\ papers = <<>>
    /\ searchQuery = <<>>
    /\ isLoading = TRUE
    /\ error = NULL
    /\ currentPage = 1
    /\ loadPc = "init"
    /\ resetPending = TRUE
    /\ lastStep = [name |-> "construct", page |-> 1]

UrlUnconfigured(u) == u = "" \/ u = "YOUR_URL_HERE"

\* the two effects of the first commit: loadData up to its await (or its
\* throw, caught and finished in the same run), then the page reset
Mount ==
    /\ loadPc = "init"
    /\ IF UrlUnconfigured(url)
       THEN /\ error' = PLACEHOLDER_ERROR
            /\ isLoading' = FALSE
            /\ loadPc' = "failed"
       ELSE /\ error' = NULL
            /\ isLoading' = TRUE
            /\ loadPc' = "fetching"
    /\ currentPage' = 1
    /\ resetPending' = FALSE
    /\ lastStep' = Step("mount")
    /\ UNCHANGED <<url, papers, searchQuery>>

\* the await resolves: setPapers(data), then finally setIsLoading(false)
LoadSuccess ==
    /\ loadPc = "fetching"
    /\ \E data \in Datasets : papers' = data
    /\ isLoading' = FALSE
    /\ loadPc' = "loaded"
    /\ lastStep' = Step("loadSuccess")
    /\ UNCHANGED <<url, searchQuery, error, currentPage, resetPending>>

CatchMessage(e) == IF e.isError THEN e.message ELSE UNKNOWN_ERROR

LoadFailureKeepsLoading ==
    /\ loadPc = "fetching"
    /\ \E e \in Thrown : error' = CatchMessage(e)
    /\ loadPc' = "failed"
    /\ lastStep' = Step("loadFailure")
    /\ UNCHANGED <<url, papers, searchQuery, isLoading, currentPage, resetPending>>

\* the await rejects: catch sets the message, finally setIsLoading(false)
LoadFailure ==
    /\ loadPc = "fetching"
    /\ \E e \in Thrown : error' = CatchMessage(e)
    /\ isLoading' = FALSE
    /\ loadPc' = "failed"
    /\ lastStep' = Step("loadFailure")
    /\ UNCHANGED <<url, papers, searchQuery, currentPage, resetPending>>

SetSearchQueryStoresFiltered ==
    /\ loadPc # "init"
    /\ ~resetPending
    /\ SearchInputShown
    /\ \E v \in Queries :
         /\ v # searchQuery
         /\ searchQuery' = v
         /\ papers' = FilterPapers(papers, v)
    /\ resetPending' = TRUE
    /\ lastStep' = Step("setSearchQuery")
    /\ UNCHANGED <<url, isLoading, error, currentPage, loadPc>>

\* onChange of the search box; the commit schedules the page-reset effect
SetSearchQuery ==
    /\ loadPc # "init"
    /\ ~resetPending
    /\ SearchInputShown
    /\ \E v \in Queries :
         /\ v # searchQuery
         /\ searchQuery' = v
    /\ resetPending' = TRUE
    /\ lastStep' = Step("setSearchQuery")
    /\ UNCHANGED <<url, papers, isLoading, error, currentPage, loadPc>>

ResetPageEffectKeepsPage ==
    /\ loadPc # "init"
    /\ resetPending
    /\ resetPending' = FALSE
    /\ lastStep' = Step("resetPage")
    /\ UNCHANGED <<url, papers, searchQuery, isLoading, error, currentPage, loadPc>>

\* useEffect(() => setCurrentPage(1), [searchQuery])
ResetPageEffect ==
    /\ loadPc # "init"
    /\ resetPending
    /\ currentPage' = 1
    /\ resetPending' = FALSE
    /\ lastStep' = Step("resetPage")
    /\ UNCHANGED <<url, papers, searchQuery, isLoading, error, loadPc>>

\* onPageChange={setCurrentPage}
OnPageChange ==
    /\ ~resetPending
    /\ PaginationShown
    /\ \E p \in PageRequests :
         /\ p # currentPage
         /\ currentPage' = p
    /\ lastStep' = Step("onPageChange")
    /\ UNCHANGED <<url, papers, searchQuery, isLoading, error, loadPc, resetPending>>

Next ==
    \/ Mount
    \/ LoadSuccess
    \/ LoadFailure
    \/ SetSearchQuery
    \/ ResetPageEffect
    \/ OnPageChange

Spec == Init /\ [][Next]_vars

TypeOK ==
    /\ url \in Urls
    /\ papers \in Datasets
    /\ searchQuery \in Queries
    /\ isLoading \in BOOLEAN
    /\ currentPage \in 1..(MaxPapers + ITEMS_PER_PAGE)
    /\ loadPc \in {"init", "fetching", "loaded", "failed"}
    /\ resetPending \in BOOLEAN


(* ------------------------------ claims -------------------------------- *)

\* q occurs in s at some start position
IsSubstring(s, q) ==
    \E k \in 0..(Len(s) - Len(q)) : SubSeq(s, k + 1, k + Len(q)) = q

\* one of the three searched fields, lowercased, contains q
FieldHit(paper, q) ==
    \/ IsSubstring(toLowerCase(paper.Title), q)
    \/ IsSubstring(toLowerCase(paper.Authors), q)
    \/ IsSubstring(toLowerCase(paper.Journal), q)

\* q occurs only outside the three searched fields
OnlyOtherFieldHit(paper, q) ==
    /\ ~FieldHit(paper, q)
    /\ \/ IsSubstring(toLowerCase(paper.Organization), q)
       \/ IsSubstring(toLowerCase(paper.VolTitle), q)

Elements(list) == {list[j] : j \in 1..Len(list)}

OnlyWhiteSpace(s) == \A i \in 1..Len(s) : s[i] = " "

RECURSIVE IsSubsequence(_, _)
IsSubsequence(s, t) ==
    IF s = <<>> THEN TRUE
    ELSE IF t = <<>> THEN FALSE
    ELSE IF Head(s) = Head(t) THEN IsSubsequence(Tail(s), Tail(t))
    ELSE IsSubsequence(s, Tail(t))

RECURSIVE ConcatPages(_, _)
ConcatPages(list, k) ==
    IF k <= 0 THEN <<>> ELSE ConcatPages(list, k - 1) \o PageSlice(list, k)

Min(a, b) == IF a < b THEN a ELSE b

\* C1: when the normalized query is non-empty, a record of the record set is
\* in the filtered list exactly when its lowercased Title, Authors or Journal
\* contains the normalized query; a record that matches only in Organization
\* or VolTitle is left out.
C1_FilterIffFieldHit ==
    LET q == NormalizedQuery(searchQuery)
        kept == Elements(filteredPapers)
    IN  q # <<>> =>
          /\ \A paper \in Elements(papers) : paper \in kept <=> FieldHit(paper, q)
          /\ kept \subseteq Elements(papers)
          /\ \A paper \in Elements(papers) :
                OnlyOtherFieldHit(paper, q) => paper \notin kept

C1_Witness ==
    LET q == NormalizedQuery(searchQuery)
        kept == Elements(filteredPapers)
    IN  /\ loadPc = "loaded"
        /\ q # <<>>
        /\ \E paper \in Elements(papers) :
              OnlyOtherFieldHit(paper, q) /\ paper \notin kept
        /\ \E paper \in Elements(papers) :
              FieldHit(paper, q) /\ paper \in kept

\* C2 as stated: for every non-empty query, every record of the filtered list
\* has a searched field containing the lowercased, untrimmed query.
C2_Original ==
    searchQuery # <<>> =>
       \A paper \in Elements(filteredPapers) :
          FieldHit(paper, toLowerCase(searchQuery))

\* C2 amended: for every query whose lowercased and trimmed form is
\* non-empty, every record of the filtered list has a searched field
\* containing that lowercased and trimmed query.
C2_Amended ==
    LET q == trim(toLowerCase(searchQuery))
    IN  q # <<>> =>
          \A paper \in Elements(filteredPapers) : FieldHit(paper, q)

C2_Witness ==
    /\ loadPc = "loaded"
    /\ searchQuery # trim(searchQuery)
    /\ trim(toLowerCase(searchQuery)) # <<>>
    /\ \E paper \in Elements(filteredPapers) :
          /\ FieldHit(paper, trim(toLowerCase(searchQuery)))
          /\ ~FieldHit(paper, toLowerCase(searchQuery))

\* C3: a step that changes the filtered list (a query edit, or the load
\* filling the record set) ends with the page at 1 or with the page reset
\* still pending, and a pending reset ends with the page at 1; stated by
\* contraposition: a step that ends with no reset pending and a page other
\* than 1 began with no reset pending and left the filtered list as it was.
C3_PageResetOnChange ==
    [][(~resetPending' /\ currentPage' # 1)
          => (~resetPending /\ filteredPapers' = filteredPapers)]_vars

C3_Witness ==
    /\ lastStep.name = "resetPage"
    /\ lastStep.page > 1
    /\ ~resetPending
    /\ currentPage = 1
    /\ Len(filteredPapers) > 0

\* C4: totalPages is ceil(n / 20), 0 for the empty list, and the slices of
\* pages 1..totalPages concatenated in order are the filtered list.
C4_PaginationPartition ==
    LET list == filteredPapers
        n == Len(list)
        pages == TotalPagesOf(list)
    IN  /\ (n = 0 => pages = 0)
        /\ pages * ITEMS_PER_PAGE >= n
        /\ (n > 0 => (pages - 1) * ITEMS_PER_PAGE < n)
        /\ ConcatPages(list, pages) = list

C4_Witness ==
    /\ Len(filteredPapers) = 2 * ITEMS_PER_PAGE + 5
    /\ totalPages = 3
    /\ currentPage = 3
    /\ Len(paginatedPapers) = 5

\* C5: whenever an error message is set, the record set is empty and loading
\* has ended, and no later step changes the message, the record set, the
\* loading flag or the state of the load.
C5_FailureIsTerminal ==
    /\ [](error # NULL => (papers = <<>> /\ ~isLoading /\ loadPc = "failed"))
    /\ [][error # NULL => (/\ error' = error
                           /\ papers' = <<>>
                           /\ isLoading' = FALSE
                           /\ loadPc' = "failed")]_vars

C5_Witness ==
    /\ error = "HTTP error"
    /\ papers = <<>>
    /\ ~isLoading
    /\ lastStep.name = "resetPage"
    /\ searchQuery # <<>>

\* C6 as stated: before a successful load neither the search input nor the
\* page controls are shown, and after it both are shown.
C6_Original ==
    /\ loadPc # "loaded" => (~SearchInputShown /\ ~PaginationShown)
    /\ loadPc = "loaded" => (SearchInputShown /\ PaginationShown)

\* C6 amended: the search input is shown in every state; the page controls
\* are shown only after a successful load, and then exactly when the
\* filtered list is non-empty.
C6_Amended ==
    /\ SearchInputShown
    /\ PaginationShown => loadPc = "loaded"
    /\ loadPc = "loaded" => (PaginationShown <=> filteredPapers # <<>>)

C6_Witness ==
    /\ loadPc = "loaded"
    /\ Len(papers) > 0
    /\ Len(filteredPapers) = 0
    /\ SearchInputShown
    /\ ~PaginationShown
    /\ NoResultsShown

\* C7: the slice of page p >= 1 is the elements at the indices
\* [(p-1)*20, p*20) that exist; it has min(20, n - (p-1)*20) elements when
\* that is positive and none otherwise, so a page past totalPages is empty.
C7_PageSliceRange ==
    LET list == filteredPapers
        n == Len(list)
        pages == TotalPagesOf(list)
    IN  \A p \in 1..MaxPageReq :
           LET lo == (p - 1) * ITEMS_PER_PAGE
               want == IF n - lo > 0 THEN Min(ITEMS_PER_PAGE, n - lo) ELSE 0
               got == PageSlice(list, p)
           IN  /\ Len(got) = want
               /\ \A i \in 1..want : got[i] = list[lo + i]
               /\ (p > pages => got = <<>>)

C7_Witness ==
    /\ Len(filteredPapers) = 45
    /\ Len(PageSlice(filteredPapers, 1)) = 20
    /\ Len(PageSlice(filteredPapers, 2)) = 20
    /\ Len(PageSlice(filteredPapers, 3)) = 5
    /\ PageSlice(filteredPapers, 4) = <<>>
    /\ totalPages = 3

\* C8: when the query is empty or only whitespace, the filtered list is the
\* record set itself.
C8_EmptyQueryIdentity ==
    OnlyWhiteSpace(searchQuery) => filteredPapers = papers

C8_Witness ==
    /\ searchQuery # <<>>
    /\ OnlyWhiteSpace(searchQuery)
    /\ \E i \in 1..Len(papers) : ~FieldHit(papers[i], <<" ">>)
    /\ filteredPapers = papers

\* C9: only the successful completion of the load changes the record set,
\* the load completes at most once, and the filtered list is always an
\* order-preserving subsequence of the record set.
C9_PapersWrittenOnce ==
    /\ [][papers' # papers => (loadPc = "fetching" /\ loadPc' = "loaded")]_vars
    /\ [][loadPc' = "fetching" => loadPc \in {"init", "fetching"}]_vars
    /\ [][loadPc = "loaded" => (loadPc' = "loaded" /\ papers' = papers)]_vars
    /\ [](IsSubsequence(filteredPapers, papers) /\ Len(filteredPapers) <= Len(papers))

C9_Witness ==
    /\ loadPc = "loaded"
    /\ lastStep.name = "onPageChange"
    /\ searchQuery # <<>>
    /\ Len(filteredPapers) < Len(papers)
    /\ Len(filteredPapers) > ITEMS_PER_PAGE

\* C10: whenever the table and the page controls are displayed, the page is
\* within 1..totalPages and the displayed slice is non-empty.
C10_DisplayedPageInRange ==
    PaginationShown =>
       /\ 1 <= currentPage
       /\ currentPage <= totalPages
       /\ paginatedPapers # <<>>

=============================================================================
